---------------------------- MODULE Spec2Model ----------------------------
(***************************************************************************)
(* The Orthanc Explorer 2 plugin (Plugin/Plugin.cpp): the recursive JSON   *)
(* merge of the configuration, the initialization sequence that validates  *)
(* the base URL and registers the REST routes, the four request handlers,  *)
(* and the per-plugin enablement table of the configuration endpoint.      *)
(***************************************************************************)
EXTENDS Integers, Sequences, FiniteSets, TLC

(***************************************************************************)
(* JSON values (Json::Value).  Every type has its own field name, so two   *)
(* values of different types are different records.  Strings are sequences *)
(* of one-character strings, so that they can be indexed.                  *)
(***************************************************************************)
Null == [t |-> "null"]

JBool(b) == [t |-> "bool", b |-> b]

JInt(i) == [t |-> "int", i |-> i]

JStr(s) == [t |-> "str", s |-> s]

JArr(a) == [t |-> "arr", a |-> a]

JObj(m) == [t |-> "obj", m |-> m]

EmptyObject == JObj(<<>>)

\* Json::Value::isNull()
isNull(v) == v.t = "null"

\* Json::Value::isObject(): type() == objectValue
isObject(v) == v.t = "obj"

\* Json::Value::getMemberNames(): the keys of an object (none for null)
getMemberNames(v) == IF isObject(v) THEN DOMAIN v.m ELSE {}

\* Json::Value::isMember(key): false on a null value
isMember(v, key) == isObject(v) /\ key \in DOMAIN v.m

\* const access: the member, or null when it is absent
Member(v, key) == IF isMember(v, key) THEN v.m[key] ELSE Null

\* Json::Value::operator[](key) on a non-const value, as a state change: a null
\* value becomes an object, and an absent key is inserted with the value null.
Subscript(v, key) ==
  LET m == IF isObject(v) THEN v.m ELSE <<>>
  IN  JObj([k \in DOMAIN m \cup {key} |-> IF k \in DOMAIN m THEN m[k] ELSE Null])

\* a[key] = value, on an object a
Assign(v, key, value) ==
  LET m == IF isObject(v) THEN v.m ELSE <<>>
  IN  JObj([k \in DOMAIN m \cup {key} |-> IF k = key THEN value ELSE m[k]])

\* Json::Value::operator bool(): !isNull()
OperatorBool(v) == ~isNull(v)

\* Json::Value::asBool(): the conversions that succeed
asBoolConvertible(v) == v.t \in {"bool", "null", "int"}

asBool(v) ==
  CASE v.t = "bool" -> v.b
    [] v.t = "null" -> FALSE
    [] v.t = "int" -> v.i # 0
    [] OTHER -> FALSE

\* Json::Value::asString() of a null or string value ("" for null)
asStringConvertible(v) == v.t \in {"str", "null"}

asString(v) == IF v.t = "str" THEN v.s ELSE <<>>

(***************************************************************************)
(* MergeJson (lines 114-136): the loop over the members of b, with the     *)
(* recursion on a pair of objects and the assignment otherwise.            *)
(***************************************************************************)
RECURSIVE MergeJson(_, _)
RECURSIVE MergeMembers(_, _, _)
RECURSIVE MergeJsonWholeSource(_, _)
RECURSIVE MergeMembersWholeSource(_, _, _)

\* one iteration of the loop of lines 123-135 for each member still to visit
MergeMembers(a, b, members) ==
  IF members = {} THEN a
  ELSE LET key == CHOOSE k \in members : TRUE
           a1 == Subscript(a, key)
           value == IF ~isNull(a1.m[key]) /\ a1.m[key].t = "obj" /\ b.m[key].t = "obj"
                    THEN MergeJson(a1.m[key], b.m[key])
                    ELSE b.m[key]
       IN  MergeMembers(Assign(a1, key, value), b, members \ {key})

\* A merge that never recurses: every key of b replaces the key of a.
MergeJsonShallow(a, b) ==
  IF ~isObject(a) \/ ~isObject(b) THEN a
  ELSE JObj([k \in DOMAIN a.m \cup DOMAIN b.m |->
               IF k \in DOMAIN b.m THEN b.m[k] ELSE a.m[k]])

\* A merge whose recursive call passes b instead of b[key].
MergeMembersWholeSource(a, b, members) ==
  IF members = {} THEN a
  ELSE LET key == CHOOSE k \in members : TRUE
           a1 == Subscript(a, key)
           value == IF ~isNull(a1.m[key]) /\ a1.m[key].t = "obj" /\ b.m[key].t = "obj"
                    THEN MergeJsonWholeSource(a1.m[key], b)
                    ELSE b.m[key]
       IN  MergeMembersWholeSource(Assign(a1, key, value), b, members \ {key})

MergeJsonWholeSource(a, b) ==
  IF ~isObject(a) \/ ~isObject(b) THEN a
  ELSE MergeMembersWholeSource(a, b, getMemberNames(b))

MergeJson(a, b) ==
  IF ~isObject(a) \/ ~isObject(b) THEN a
  ELSE MergeMembers(a, b, getMemberNames(b))

(***************************************************************************)
(* State.                                                                  *)
(***************************************************************************)
VARIABLES
  pc,                        \* position in OrthancPluginInitialize
  hostVersionOk,             \* what OrthancPluginCheckVersion answers
  defaultConfiguration,      \* "OrthancExplorer2" of the embedded default document
  orthancFullConfiguration_, \* the host's configuration (line 29)
  pluginJsonConfiguration_,  \* the effective configuration (line 31)
  oe2BaseUrl_,               \* the base URL (line 32)
  routes,                    \* the REST callbacks registered so far, in order
  rootUri,                   \* what OrthancPluginSetRootUri was given, if called
  initResult,                \* what OrthancPluginInitialize returned
  thrown,                    \* the exception caught at lines 428-438, if any
  hostPlugins,               \* the host's answer to GET /plugins
  hostPluginInfo,            \* the host's answer to GET /plugins/{name}
  lastRequest,               \* the last request dispatched to a handler
  lastOutput,                \* what that handler did
  target,                    \* MergeJson: the value merged into
  source,                    \* MergeJson: the value merged from
  original,                  \* MergeJson: target before the first call
  firstMerge,                \* MergeJson: target after the first call
  mergeCalls                 \* MergeJson: calls made

initVars == <<pc, hostVersionOk, defaultConfiguration, pluginJsonConfiguration_,
              oe2BaseUrl_, routes, rootUri, initResult, thrown>>

hostVars == <<orthancFullConfiguration_, hostPlugins, hostPluginInfo>>

requestVars == <<lastRequest, lastOutput>>

mergeVars == <<target, source, original, firstMerge, mergeCalls>>

vars == <<initVars, hostVars, requestVars, mergeVars>>

None == [t |-> "none"]

(***************************************************************************)
(* The JSON trees MergeJson is applied to: objects nested up to three deep *)
(* over two keys, with a null, a scalar and an array as leaves.            *)
(***************************************************************************)
MergeKeys == {"Root", "UiOptions"}

MergeLeaves == {Null, JInt(1), JArr(<<>>)}

PartialFunctions(K, V) == UNION {[D -> V] : D \in SUBSET K}

MergeObjects1 == {JObj(f) : f \in PartialFunctions(MergeKeys, MergeLeaves)}

MergeObjects2 ==
  {JObj(f) : f \in PartialFunctions(MergeKeys, MergeLeaves \cup MergeObjects1)}

\* the same objects one level deeper, as the "UiOptions" of a configuration
MergeObjects3 == {JObj([k \in {"UiOptions"} |-> v]) : v \in MergeObjects2}

MergeTrees == MergeLeaves \cup MergeObjects2 \cup MergeObjects3

\* calls of MergeJson made on one target
MaxMergeCalls == 2

MergeIdle ==
  /\ target = Null /\ source = Null /\ original = Null
  /\ firstMerge = None /\ mergeCalls = 0

InitIdle ==
  /\ pc = "idle" /\ hostVersionOk = TRUE /\ defaultConfiguration = Null
  /\ pluginJsonConfiguration_ = Null /\ oe2BaseUrl_ = <<>> /\ routes = <<>>
  /\ rootUri = None /\ initResult = None /\ thrown = "none"

HostIdle ==
  /\ orthancFullConfiguration_ = EmptyObject
  /\ hostPlugins = None /\ hostPluginInfo = "fail"

RequestIdle == lastRequest = None /\ lastOutput = None

InitMerge ==
  /\ target \in MergeTrees
  /\ source \in MergeTrees
  /\ original = target
  /\ firstMerge = None
  /\ mergeCalls = 0
  /\ InitIdle /\ HostIdle /\ RequestIdle

\* a call MergeJson(target, source): target is changed in place
CallMergeJson ==
  /\ mergeCalls < MaxMergeCalls
  /\ target' = MergeJson(target, source)
  /\ firstMerge' = IF mergeCalls = 0 THEN target' ELSE firstMerge
  /\ mergeCalls' = mergeCalls + 1
  /\ UNCHANGED <<source, original, initVars, hostVars, requestVars>>

NextMerge == CallMergeJson

SpecMerge == InitMerge /\ [][NextMerge]_vars

(***************************************************************************)
(* The merge as section 4.1 states it, by cases on each key.               *)
(***************************************************************************)
RECURSIVE ReferenceMerge(_, _)
ReferenceMerge(a, b) ==
  IF a.t # "obj" \/ b.t # "obj" THEN a
  ELSE [t |-> "obj",
        m |-> [k \in DOMAIN a.m \cup DOMAIN b.m |->
                 IF k \notin DOMAIN b.m THEN a.m[k]
                 ELSE IF k \in DOMAIN a.m /\ a.m[k].t = "obj" /\ b.m[k].t = "obj"
                      THEN ReferenceMerge(a.m[k], b.m[k])
                      ELSE b.m[k]]]

\* C4: after MergeJson(target, source), target is the reference merge of its
\* original value with source: unchanged when either is not an object, and
\* otherwise, key by key, the recursive merge of two objects, source's value
\* in every other case, and the original value for a key only target has.
C4_MergeIsReference ==
  mergeCalls >= 1 => firstMerge = ReferenceMerge(original, source)

\* a merge has recursed into a nested object and has replaced a key as well
C4_Witness ==
  /\ mergeCalls = 1
  /\ isObject(original) /\ isObject(source)
  /\ \E k \in DOMAIN original.m \cap DOMAIN source.m :
        /\ isObject(original.m[k]) /\ isObject(source.m[k])
        /\ DOMAIN original.m[k].m \ DOMAIN source.m[k].m # {}
        /\ DOMAIN source.m[k].m \ DOMAIN original.m[k].m # {}
  /\ \E k \in DOMAIN original.m \cap DOMAIN source.m :
        isObject(original.m[k]) /\ ~isObject(source.m[k])
  /\ target = firstMerge /\ target # original

\* C5: merging source a second time into the result of the first merge leaves
\* it as the first merge left it.
C5_MergeIdempotent ==
  mergeCalls = 2 => target = firstMerge

\* a second merge has run after a first one that changed target by recursing
C5_Witness ==
  /\ mergeCalls = 2
  /\ firstMerge # original
  /\ isObject(original) /\ isObject(source)
  /\ \E k \in DOMAIN original.m \cap DOMAIN source.m :
        /\ isObject(original.m[k]) /\ isObject(source.m[k])
        /\ firstMerge.m[k] # original.m[k]
        /\ firstMerge.m[k] # source.m[k]

(***************************************************************************)
(* Strings of the configuration, as sequences of characters.               *)
(***************************************************************************)
StrEmpty == <<>>

StrSlash == <<"/">>

StrUiSlash == <<"u", "i", "/">>

StrSlashUi == <<"/", "u", "i">>

StrSlashUiSlash == <<"/", "u", "i", "/">>

StrYes == <<"y", "e", "s">>

\* std::string + literal: the literal is kept whole, after the characters
Plus(str, literal) == <<str, literal>>

(***************************************************************************)
(* OrthancPlugins::OrthancConfiguration, as the plugin uses it.            *)
(***************************************************************************)
\* IsSection(name): the host configuration has an object under name
IsSection(configuration, name) ==
  isMember(configuration, name) /\ isObject(configuration.m[name])

\* GetSection(target, name), for a section that exists
GetSection(configuration, name) == configuration.m[name]

\* Json truthiness of a configuration value: true, a number other than 0, a
\* string or array that is not empty
Truthy(v) ==
  CASE v.t = "bool" -> v.b
    [] v.t = "int" -> v.i # 0
    [] v.t = "str" -> v.s # <<>>
    [] v.t = "arr" -> v.a # <<>>
    [] v.t = "obj" -> DOMAIN v.m # {}
    [] OTHER -> FALSE

\* GetBooleanValue(key, defaultValue) on a section
GetBooleanValue(section, key, defaultValue) ==
  IF isMember(section, key) THEN Truthy(section.m[key]) ELSE defaultValue

(***************************************************************************)
(* ReadConfiguration (lines 139-157).                                      *)
(***************************************************************************)
ReadConfigurationResult(defaults, full) ==
  IF IsSection(full, "OrthancExplorer2")
  THEN MergeJson(defaults, GetSection(full, "OrthancExplorer2"))
  ELSE defaults

(***************************************************************************)
(* OrthancPluginInitialize (lines 348-441), one action per step.           *)
(***************************************************************************)
\* the test of lines 381-383 with the test of the size alone
RootIsMalformedOnlyEmpty(url) == Len(url) < 1

\* the test of lines 381-383 without the test of the last character
RootIsMalformedNoTrailingTest(url) ==
  Len(url) < 1 \/ url[1] # "/"

\* the test of lines 381-383
RootIsMalformed(url) ==
  Len(url) < 1 \/ url[1] # "/" \/ url[Len(url)] # "/"

\* the test of line 377: if (pluginJsonConfiguration_["Enable"]), which is
\* Json::Value::operator bool()
EnableTest(v) == OperatorBool(v)

\* the registrations of lines 394-412 with the catch-all patterns first
RegistrationsCatchAllFirst ==
  << [suffix |-> "app/(.*)", handler |-> "ServeEmbeddedFile", resource |-> "WEB_APPLICATION_INDEX"],
     [suffix |-> "app", handler |-> "ServeEmbeddedFile", resource |-> "WEB_APPLICATION_INDEX"],
     [suffix |-> "app/assets/(.*)", handler |-> "ServeEmbeddedFolder", resource |-> "WEB_APPLICATION_ASSETS"],
     [suffix |-> "app/index.html", handler |-> "ServeEmbeddedFile", resource |-> "WEB_APPLICATION_INDEX"],
     [suffix |-> "app/favicon.ico", handler |-> "ServeEmbeddedFile", resource |-> "WEB_APPLICATION_FAVICON"],
     [suffix |-> "api/configuration", handler |-> "GetOE2Configuration", resource |-> "none"] >>

\* the registrations of lines 394-412, in the order of the calls
Registrations ==
  << [suffix |-> "app/assets/(.*)", handler |-> "ServeEmbeddedFolder", resource |-> "WEB_APPLICATION_ASSETS"],
     [suffix |-> "app/index.html", handler |-> "ServeEmbeddedFile", resource |-> "WEB_APPLICATION_INDEX"],
     [suffix |-> "app/favicon.ico", handler |-> "ServeEmbeddedFile", resource |-> "WEB_APPLICATION_FAVICON"],
     [suffix |-> "app/(.*)", handler |-> "ServeEmbeddedFile", resource |-> "WEB_APPLICATION_INDEX"],
     [suffix |-> "app", handler |-> "ServeEmbeddedFile", resource |-> "WEB_APPLICATION_INDEX"],
     [suffix |-> "api/configuration", handler |-> "GetOE2Configuration", resource |-> "none"] >>

\* the registration of line 419
RedirectRegistration ==
  [uri |-> Plus(<<>>, "/"), handler |-> "RedirectRoot", resource |-> "none"]

\* the catch clauses of lines 428-438: log and return -1
Catch(exception) ==
  /\ thrown' = exception
  /\ initResult' = -1
  /\ pc' = "returned"

\* lines 358-371: the check of the host's version
CheckVersion ==
  /\ pc = "start"
  /\ IF ~hostVersionOk
     THEN initResult' = -1 /\ pc' = "returned"
     ELSE initResult' = initResult /\ pc' = "ReadConfiguration"
  /\ UNCHANGED <<hostVersionOk, defaultConfiguration, pluginJsonConfiguration_,
                 oe2BaseUrl_, routes, rootUri, thrown, hostVars, requestVars, mergeVars>>

\* line 375
ReadConfiguration ==
  /\ pc = "ReadConfiguration"
  /\ pluginJsonConfiguration_' =
       ReadConfigurationResult(defaultConfiguration, orthancFullConfiguration_)
  /\ pc' = "Enable"
  /\ UNCHANGED <<hostVersionOk, defaultConfiguration, oe2BaseUrl_, routes, rootUri,
                 initResult, thrown, hostVars, requestVars, mergeVars>>

\* lines 377 and 423-426, and the return of line 440 for a disabled plugin
TestEnable ==
  /\ pc = "Enable"
  /\ pluginJsonConfiguration_' = Subscript(pluginJsonConfiguration_, "Enable")
  /\ IF EnableTest(pluginJsonConfiguration_'.m["Enable"])
     THEN initResult' = initResult /\ pc' = "Root"
     ELSE initResult' = 0 /\ pc' = "returned"
  /\ UNCHANGED <<hostVersionOk, defaultConfiguration, oe2BaseUrl_, routes, rootUri,
                 thrown, hostVars, requestVars, mergeVars>>

\* lines 379-389
ValidateRoot ==
  /\ pc = "Root"
  /\ pluginJsonConfiguration_' = Subscript(pluginJsonConfiguration_, "Root")
  /\ LET root == pluginJsonConfiguration_'.m["Root"]
     IN  IF ~asStringConvertible(root)
         THEN Catch("Json::LogicError") /\ oe2BaseUrl_' = oe2BaseUrl_
         ELSE /\ oe2BaseUrl_' = asString(root)
              /\ IF RootIsMalformed(oe2BaseUrl_')
                 THEN Catch("ErrorCode_InternalError")
                 ELSE pc' = "Register" /\ UNCHANGED <<thrown, initResult>>
  /\ UNCHANGED <<hostVersionOk, defaultConfiguration, routes, rootUri,
                 hostVars, requestVars, mergeVars>>

\* one of the calls of lines 394-412: the host accepts the callback, or it
\* answers an error and RegisterRestCallback throws
RegisterRestCallback ==
  /\ pc = "Register"
  /\ \E accepted \in BOOLEAN :
       LET r == Registrations[Len(routes) + 1]
       IN  IF accepted
           THEN /\ routes' = Append(routes, [uri |-> Plus(oe2BaseUrl_, r.suffix),
                                              handler |-> r.handler,
                                              resource |-> r.resource])
                /\ pc' = IF Len(routes') = Len(Registrations) THEN "SetRootUri" ELSE "Register"
                /\ UNCHANGED <<thrown, initResult>>
           ELSE Catch("ErrorCode_Plugin") /\ routes' = routes
  /\ UNCHANGED <<hostVersionOk, defaultConfiguration, pluginJsonConfiguration_,
                 oe2BaseUrl_, rootUri, hostVars, requestVars, mergeVars>>

\* lines 414-415
SetRootUri ==
  /\ pc = "SetRootUri"
  /\ rootUri' = Plus(oe2BaseUrl_, "app/")
  /\ pc' = "ReplaceDefaultExplorer"
  /\ UNCHANGED <<hostVersionOk, defaultConfiguration, pluginJsonConfiguration_,
                 oe2BaseUrl_, routes, initResult, thrown, hostVars, requestVars, mergeVars>>

\* lines 417-420, and the return of line 440
ReplaceDefaultExplorer ==
  /\ pc = "ReplaceDefaultExplorer"
  /\ pluginJsonConfiguration_' = Subscript(pluginJsonConfiguration_, "ReplaceDefaultExplorer")
  /\ \E accepted \in BOOLEAN :
       LET flag == pluginJsonConfiguration_'.m["ReplaceDefaultExplorer"]
       IN  IF ~asBoolConvertible(flag)
           THEN accepted /\ Catch("Json::LogicError") /\ routes' = routes
           ELSE IF ~asBool(flag)
           THEN accepted /\ initResult' = 0 /\ pc' = "returned" /\ UNCHANGED <<routes, thrown>>
           ELSE IF accepted
           THEN /\ routes' = Append(routes, RedirectRegistration)
                /\ initResult' = 0 /\ pc' = "returned" /\ thrown' = thrown
           ELSE Catch("ErrorCode_Plugin") /\ routes' = routes
  /\ UNCHANGED <<hostVersionOk, defaultConfiguration, oe2BaseUrl_, rootUri,
                 hostVars, requestVars, mergeVars>>

(***************************************************************************)
(* The enablement table of the configuration endpoint (lines 159-312).     *)
(***************************************************************************)
\* GetPluginConfiguration (lines 159-171): whether the section exists
GetPluginConfiguration(full, sectionName) == IsSection(full, sectionName)

\* the section GetPluginConfiguration copies out (an untouched value otherwise)
GetPluginConfigurationValue(full, sectionName) ==
  IF IsSection(full, sectionName) THEN GetSection(full, sectionName) ELSE Null

\* IsPluginEnabledInConfiguration without the test that the section exists:
\* a missing section counts as enabled
IsPluginEnabledAbsentSectionEnabled(full, sectionName, enableValueName) ==
  IF IsSection(full, sectionName)
  THEN GetBooleanValue(GetSection(full, sectionName), enableValueName, FALSE)
  ELSE TRUE

\* IsPluginEnabledInConfiguration (lines 174-185)
IsPluginEnabledInConfiguration(full, sectionName, enableValueName) ==
  IF IsSection(full, sectionName)
  THEN GetBooleanValue(GetSection(full, sectionName), enableValueName, FALSE)
  ELSE FALSE

\* the if-chain of lines 229-306: the value of "Enabled" for a plugin name
Enabled(full, pluginName) ==
  CASE pluginName = "authorization" ->
         GetPluginConfiguration(full, "Authorization")
         /\ isMember(GetPluginConfigurationValue(full, "Authorization"), "WebService")
    [] pluginName = "connectivity-checks" -> TRUE
    [] pluginName = "dicom-web" -> IsPluginEnabledInConfiguration(full, "DicomWeb", "Enable")
    [] pluginName = "gdcm" -> IsPluginEnabledInConfiguration(full, "Gdcm", "Enable")
    [] pluginName = "mysql-index" -> IsPluginEnabledInConfiguration(full, "MySQL", "EnableIndex")
    [] pluginName = "mysql-storage" -> IsPluginEnabledInConfiguration(full, "MySQL", "EnableStorage")
    [] pluginName = "odbc-index" -> IsPluginEnabledInConfiguration(full, "PostgreSQL", "EnableIndex")
    [] pluginName = "odbc-storage" -> IsPluginEnabledInConfiguration(full, "PostgreSQL", "EnableStorage")
    [] pluginName = "postgresql-index" -> IsPluginEnabledInConfiguration(full, "Odbc", "EnableIndex")
    [] pluginName = "postgresql-storage" -> IsPluginEnabledInConfiguration(full, "Odbc", "EnableStorage")
    [] pluginName = "osimis-web-viewer" -> GetPluginConfiguration(full, "WebViewer")
    [] pluginName = "python" -> GetPluginConfiguration(full, "PythonScript")
    [] pluginName = "serve-folders" -> GetPluginConfiguration(full, "ServeFolders")
    [] pluginName = "stone-webviewer" -> GetPluginConfiguration(full, "StoneWebViewer")
    [] pluginName = "tcia" -> IsPluginEnabledInConfiguration(full, "Tcia", "Enable")
    [] pluginName = "transfers" -> TRUE
    [] pluginName = "web-viewer" -> TRUE
    [] pluginName = "worklists" -> IsPluginEnabledInConfiguration(full, "Worklists", "Enable")
    [] pluginName = "wsi" -> TRUE
    [] OTHER -> TRUE

\* Orthanc::Toolbox::SplitUriComponents, counted: the segments between '/'
UriComponents(url) ==
  Cardinality({i \in 1..Len(url) : url[i] # "/" /\ (i = 1 \/ url[i - 1] = "/")})

\* lines 203-207: "../" once per component
RECURSIVE PluginUriPrefix(_)
PluginUriPrefix(n) == IF n = 0 THEN <<>> ELSE <<".", ".", "/">> \o PluginUriPrefix(n - 1)

\* GetPluginInfo (lines 187-194): the host's record, null when the query fails
GetPluginInfo(infos, pluginName) ==
  IF infos[pluginName] = "fail" THEN Null
  ELSE IF infos[pluginName] = "RootUri"
       THEN JObj([k \in {"Description", "RootUri"} |->
                    IF k = "RootUri" THEN JStr(<<"w">>) ELSE JStr(<<"d">>)])
       ELSE IF infos[pluginName] = "EmptyRootUri"
            THEN JObj([k \in {"Description", "RootUri"} |->
                         IF k = "RootUri" THEN JStr(<<>>) ELSE JStr(<<"d">>)])
            ELSE JObj([k \in {"Description"} |-> JStr(<<"d">>)])

\* the record of a plugin, left null when the host gave no information on it
PluginRecordOnlyWithInfo(full, baseUrl, infos, pluginName) ==
  LET pluginInfo == GetPluginInfo(infos, pluginName)
      rewritten ==
        IF isMember(pluginInfo, "RootUri") /\ Len(asString(pluginInfo.m["RootUri"])) > 0
        THEN Assign(pluginInfo, "RootUri",
                    JStr(PluginUriPrefix(UriComponents(baseUrl))
                         \o asString(pluginInfo.m["RootUri"])))
        ELSE pluginInfo
  IN  IF isNull(pluginInfo) THEN Null
      ELSE Assign(rewritten, "Enabled", JBool(Enabled(full, pluginName)))

\* lines 221-229 and the if-chain: the record stored for one plugin
PluginRecord(full, baseUrl, infos, pluginName) ==
  LET pluginInfo == GetPluginInfo(infos, pluginName)
      rewritten ==
        IF isMember(pluginInfo, "RootUri") /\ Len(asString(pluginInfo.m["RootUri"])) > 0
        THEN Assign(pluginInfo, "RootUri",
                    JStr(PluginUriPrefix(UriComponents(baseUrl))
                         \o asString(pluginInfo.m["RootUri"])))
        ELSE pluginInfo
  IN  Assign(rewritten, "Enabled", JBool(Enabled(full, pluginName)))

\* the loop of lines 211-309 over the plugin list, from its i-th entry on
RECURSIVE PluginsLoop(_, _, _, _, _, _)
PluginsLoop(full, baseUrl, infos, pluginList, i, pluginsConfiguration) ==
  IF i > Len(pluginList) THEN pluginsConfiguration
  ELSE IF pluginList[i] = "explorer.js"
       THEN PluginsLoop(full, baseUrl, infos, pluginList, i + 1, pluginsConfiguration)
       ELSE PluginsLoop(full, baseUrl, infos, pluginList, i + 1,
                        Assign(pluginsConfiguration, pluginList[i],
                               PluginRecord(full, baseUrl, infos, pluginList[i])))

\* GetPluginsConfiguration (lines 196-312); a failed GET /plugins leaves the
\* list null, of size 0
GetPluginsConfiguration(full, baseUrl, plugins, infos) ==
  PluginsLoop(full, baseUrl, infos, IF plugins.ok THEN plugins.list ELSE <<>>, 1, Null)

\* the host queries GetPluginsConfiguration makes
HostQueries(plugins) ==
  {"/plugins"} \cup
  (IF plugins.ok
   THEN {plugins.list[i] : i \in {j \in 1..Len(plugins.list) : plugins.list[j] # "explorer.js"}}
   ELSE {})

(***************************************************************************)
(* The request handlers (lines 34-112 and 315-334).  An output records     *)
(* what the handler did: the answer sent, the embedded resources read and  *)
(* the host queries made.                                                  *)
(***************************************************************************)
Methods == {"GET", "POST", "PUT", "DELETE"}

\* OrthancPluginSendMethodNotAllowed(context, output, "GET")
MethodNotAllowed ==
  [kind |-> "MethodNotAllowed", allow |-> "GET", body |-> None, mime |-> "none",
   location |-> None, resources |-> {}, hostQueries |-> {}]

\* the first group of the assets pattern: its file name, the MIME type
\* AutodetectMimeType gives its extension, whether it starts with "index.", and
\* whether the embedded folder holds it
AssetPaths ==
  { [name |-> "index.4f2a.js", mime |-> "application/javascript", index |-> TRUE, held |-> TRUE],
    [name |-> "index.4f2a.css", mime |-> "text/css", index |-> TRUE, held |-> TRUE],
    [name |-> "vendor.js", mime |-> "application/javascript", index |-> FALSE, held |-> TRUE],
    [name |-> "unknown/path", mime |-> "application/octet-stream", index |-> FALSE, held |-> FALSE] }

\* lines 55-58: the dictionary of the substitution
Dictionary(baseUrl) ==
  [ORTHANC_API_BASE_URL |-> Plus(<<>>, "/"),
   OE2_BASE_URL |-> Plus(SubSeq(baseUrl, 1, Len(baseUrl) - 1), "/app"),
   OE2_API_BASE_URL |-> Plus(SubSeq(baseUrl, 1, Len(baseUrl) - 1), "/api/")]

\* ServeEmbeddedFolder (lines 34-74); substituted tells whether the variables
\* of the file could be substituted
ServeEmbeddedFolderOutput(baseUrl, folder, method, group, substituted) ==
  IF method # "GET" THEN MethodNotAllowed
  ELSE [kind |-> "AnswerBuffer", allow |-> "none",
        body |-> IF ~group.held THEN None
                 ELSE IF group.mime = "application/javascript" /\ group.index /\ substituted
                      THEN [resource |-> <<folder, group.name>>, variables |-> Dictionary(baseUrl)]
                      ELSE [resource |-> <<folder, group.name>>, variables |-> None],
        mime |-> group.mime, location |-> None,
        resources |-> {<<folder, group.name>>}, hostQueries |-> {}]

\* ServeEmbeddedFile (lines 76-95)
ServeEmbeddedFileOutput(file, method) ==
  IF method # "GET" THEN MethodNotAllowed
  ELSE [kind |-> "AnswerBuffer", allow |-> "none",
        body |-> [resource |-> <<file>>, variables |-> None],
        mime |-> IF file = "WEB_APPLICATION_FAVICON" THEN "image/x-icon" ELSE "text/html",
        location |-> None, resources |-> {<<file>>}, hostQueries |-> {}]

\* RedirectRoot (lines 97-112)
RedirectRootOutput(baseUrl, method) ==
  IF method # "GET" THEN MethodNotAllowed
  ELSE [kind |-> "Redirect", allow |-> "none", body |-> None, mime |-> "none",
        location |-> Plus(baseUrl, "app/"), resources |-> {}, hostQueries |-> {}]

\* GetOE2Configuration querying the host before it tests the method
GetOE2ConfigurationQueriesFirst(configuration, full, baseUrl, plugins, infos, method) ==
  IF method # "GET"
  THEN [kind |-> "MethodNotAllowed", allow |-> "GET", body |-> None, mime |-> "none",
        location |-> None, resources |-> {}, hostQueries |-> HostQueries(plugins)]
  ELSE [kind |-> "AnswerBuffer", allow |-> "none",
        body |-> JObj([k \in {"UiOptions", "Plugins"} |->
                         IF k = "UiOptions" THEN configuration.m["UiOptions"]
                         ELSE GetPluginsConfiguration(full, baseUrl, plugins, infos)]),
        mime |-> "application/json", location |-> None,
        resources |-> {}, hostQueries |-> HostQueries(plugins)]

\* GetOE2Configuration (lines 315-334), after line 328 has read "UiOptions"
GetOE2ConfigurationOutput(configuration, full, baseUrl, plugins, infos, method) ==
  IF method # "GET" THEN MethodNotAllowed
  ELSE [kind |-> "AnswerBuffer", allow |-> "none",
        body |-> JObj([k \in {"UiOptions", "Plugins"} |->
                         IF k = "UiOptions" THEN configuration.m["UiOptions"]
                         ELSE GetPluginsConfiguration(full, baseUrl, plugins, infos)]),
        mime |-> "application/json", location |-> None,
        resources |-> {}, hostQueries |-> HostQueries(plugins)]

\* the host dispatches a request to a callback only once initialization has
\* succeeded, and only to a registered route
Dispatched(i, handler) ==
  /\ pc = "returned" /\ initResult = 0
  /\ i \in 1..Len(routes)
  /\ routes[i].handler = handler

ServeEmbeddedFolder ==
  \E i \in 1..Len(routes), method \in Methods, group \in AssetPaths, substituted \in BOOLEAN :
    /\ Dispatched(i, "ServeEmbeddedFolder")
    /\ lastRequest' = [route |-> i, handler |-> "ServeEmbeddedFolder", method |-> method,
                       group |-> group.name]
    /\ lastOutput' = ServeEmbeddedFolderOutput(oe2BaseUrl_, routes[i].resource, method,
                                               group, substituted)
    /\ UNCHANGED <<initVars, hostVars, mergeVars>>

ServeEmbeddedFile ==
  \E i \in 1..Len(routes), method \in Methods :
    /\ Dispatched(i, "ServeEmbeddedFile")
    /\ lastRequest' = [route |-> i, handler |-> "ServeEmbeddedFile", method |-> method,
                       group |-> "none"]
    /\ lastOutput' = ServeEmbeddedFileOutput(routes[i].resource, method)
    /\ UNCHANGED <<initVars, hostVars, mergeVars>>

RedirectRoot ==
  \E i \in 1..Len(routes), method \in Methods :
    /\ Dispatched(i, "RedirectRoot")
    /\ lastRequest' = [route |-> i, handler |-> "RedirectRoot", method |-> method,
                       group |-> "none"]
    /\ lastOutput' = RedirectRootOutput(oe2BaseUrl_, method)
    /\ UNCHANGED <<initVars, hostVars, mergeVars>>

\* line 328 reads pluginJsonConfiguration_["UiOptions"] through the non-const
\* operator[] of the global value
GetOE2Configuration ==
  \E i \in 1..Len(routes), method \in Methods :
    /\ Dispatched(i, "GetOE2Configuration")
    /\ lastRequest' = [route |-> i, handler |-> "GetOE2Configuration", method |-> method,
                       group |-> "none"]
    /\ pluginJsonConfiguration_' =
         IF method # "GET" THEN pluginJsonConfiguration_
         ELSE Subscript(pluginJsonConfiguration_, "UiOptions")
    /\ lastOutput' = GetOE2ConfigurationOutput(pluginJsonConfiguration_', orthancFullConfiguration_,
                                               oe2BaseUrl_, hostPlugins, hostPluginInfo, method)
    /\ UNCHANGED <<pc, hostVersionOk, defaultConfiguration, oe2BaseUrl_, routes, rootUri,
                   initResult, thrown, hostVars, mergeVars>>

(***************************************************************************)
(* Initialization and request handling: the configurations it starts from. *)
(***************************************************************************)
\* an object of the keys whose value is given (None: the key is absent)
ObjectOf(values) ==
  JObj([k \in {key \in DOMAIN values : values[key] # None} |-> values[k]])

\* the "OrthancExplorer2" object of the embedded default configuration
DefaultOE2 ==
  ObjectOf([Enable |-> JBool(TRUE), Root |-> JStr(StrSlashUiSlash),
            ReplaceDefaultExplorer |-> JBool(FALSE),
            UiOptions |-> JObj([k \in {"a"} |-> JInt(1)])])

\* the same document without "UiOptions"
DefaultOE2NoUiOptions ==
  ObjectOf([Enable |-> JBool(TRUE), Root |-> JStr(StrSlashUiSlash),
            ReplaceDefaultExplorer |-> JBool(FALSE), UiOptions |-> None])

DefaultConfigurations == {DefaultOE2, DefaultOE2NoUiOptions}

EnableValues == {None, Null, JBool(TRUE), JBool(FALSE)}

RootValues ==
  {None, Null, JArr(<<>>), JStr(StrEmpty), JStr(StrSlash), JStr(StrUiSlash),
   JStr(StrSlashUi), JStr(StrSlashUiSlash)}

ReplaceDefaultExplorerValues == {None, JBool(TRUE), JBool(FALSE), JStr(StrYes)}

UiOptionsValues == {None, JObj([k \in {"b"} |-> JInt(2)])}

\* the "OrthancExplorer2" sections a user may write
UserSections ==
  {ObjectOf([Enable |-> e, Root |-> r, ReplaceDefaultExplorer |-> x, UiOptions |-> u]) :
     e \in EnableValues, r \in RootValues, x \in ReplaceDefaultExplorerValues,
     u \in UiOptionsValues}

\* the host's configuration: with or without an "OrthancExplorer2" section
HostConfigurations ==
  {EmptyObject} \cup {JObj([k \in {"OrthancExplorer2"} |-> section]) : section \in UserSections}

Init ==
  /\ pc = "start"
  /\ hostVersionOk \in BOOLEAN
  /\ defaultConfiguration \in DefaultConfigurations
  /\ orthancFullConfiguration_ \in HostConfigurations
  /\ pluginJsonConfiguration_ = Null
  /\ oe2BaseUrl_ = <<>>
  /\ routes = <<>>
  /\ rootUri = None
  /\ initResult = None
  /\ thrown = "none"
  /\ hostPlugins \in {[ok |-> FALSE, list |-> <<>>],
                      [ok |-> TRUE, list |-> <<"explorer.js", "dicom-web">>]}
  /\ hostPluginInfo = [n \in {"dicom-web"} |-> "RootUri"]
  /\ RequestIdle
  /\ MergeIdle

Next ==
  \/ CheckVersion
  \/ ReadConfiguration
  \/ TestEnable
  \/ ValidateRoot
  \/ RegisterRestCallback
  \/ SetRootUri
  \/ ReplaceDefaultExplorer
  \/ ServeEmbeddedFolder
  \/ ServeEmbeddedFile
  \/ RedirectRoot
  \/ GetOE2Configuration

Spec == Init /\ [][Next]_vars

(***************************************************************************)
(* Properties of the initialization and of the handlers.                   *)
(***************************************************************************)
\* the configuration has been read and merged
Configured == pc \notin {"idle", "start", "ReadConfiguration"}

Returned == pc = "returned"

MergedEnable == Member(pluginJsonConfiguration_, "Enable")

MergedRoot == Member(pluginJsonConfiguration_, "Root")

MergedReplaceDefaultExplorer == Member(pluginJsonConfiguration_, "ReplaceDefaultExplorer")

\* a string that is not empty, starts with '/' and ends with '/'
WellFormedRoot(str) == str # <<>> /\ Head(str) = "/" /\ str[Len(str)] = "/"

\* the URIs of the six routes, in the order section 4.5 gives
ExpectedUris(root) ==
  << <<root, "app/assets/(.*)">>, <<root, "app/index.html">>, <<root, "app/favicon.ico">>,
     <<root, "app/(.*)">>, <<root, "app">>, <<root, "api/configuration">>, <<(<<>>), "/">> >>

RegisteredUris == [i \in 1..Len(routes) |-> routes[i].uri]

\* C1: with the merged "Enable" equal to false, initialization ends disabled:
\* it returns 0, no route is ever registered and the root URI is never set.
C1_EnableFalseIsDisabled ==
  (Configured /\ MergedEnable = JBool(FALSE)) =>
    /\ routes = <<>>
    /\ rootUri = None
    /\ Returned => initResult = 0

\* C2: with the plugin enabled and "Root" a string, a Root that is empty or
\* does not both start and end with '/' makes initialization return -1 with
\* no route registered, and any other Root passes the validation: routes are
\* registered only for it, and initialization returns 0 unless a later step
\* of the registration sequence throws.
C2_RootValidation ==
  (Configured /\ pc # "Enable" /\ pc # "Root"
   /\ MergedEnable = JBool(TRUE) /\ MergedRoot.t = "str") =>
    IF WellFormedRoot(MergedRoot.s)
    THEN /\ thrown # "ErrorCode_InternalError"
         /\ oe2BaseUrl_ = MergedRoot.s
         /\ (Returned /\ thrown = "none") => (initResult = 0 /\ Len(routes) >= 6)
         /\ (Returned /\ initResult = -1) => thrown \in {"ErrorCode_Plugin", "Json::LogicError"}
    ELSE /\ Returned /\ initResult = -1
         /\ thrown = "ErrorCode_InternalError"
         /\ routes = <<>> /\ rootUri = None

\* "/ui" has been rejected
C2_Witness ==
  /\ Returned /\ initResult = -1
  /\ MergedEnable = JBool(TRUE)
  /\ MergedRoot = JStr(StrSlashUi)
  /\ routes = <<>>

\* "/ui/" has been accepted and initialization has returned 0
C2_WitnessAccepted ==
  /\ Returned /\ initResult = 0
  /\ MergedEnable = JBool(TRUE)
  /\ MergedRoot = JStr(StrSlashUiSlash)
  /\ Len(routes) >= 6

\* C3 as stated: whenever initialization has returned -1, no route is
\* registered.
C3_NoRouteOnFailure ==
  (Returned /\ initResult = -1) => routes = <<>>

\* C3, amended: when initialization returns -1 because the host's version is
\* too old or the base URL is malformed, no route is registered and the root
\* URI is not set; when it returns -1 because a step of the registration
\* sequence threw, the routes registered before that step stay registered,
\* in the order of registration.
C3_NoRouteOnEarlyFailure ==
  (Returned /\ initResult = -1) =>
    /\ (~hostVersionOk \/ (MergedRoot.t \in {"str", "null"} /\ ~WellFormedRoot(asString(MergedRoot))))
         => (routes = <<>> /\ rootUri = None)
    /\ thrown \in {"ErrorCode_Plugin", "Json::LogicError"}
         => RegisteredUris = SubSeq(ExpectedUris(oe2BaseUrl_), 1, Len(routes))
    /\ hostVersionOk => thrown # "none"

\* a malformed base URL has made initialization fail
C3_Witness ==
  /\ Returned /\ initResult = -1
  /\ hostVersionOk
  /\ thrown = "ErrorCode_InternalError"
  /\ MergedRoot = JStr(StrUiSlash)
  /\ routes = <<>>

\* C8: a request whose method is not GET gets Method-Not-Allowed with the
\* allowed method "GET" and nothing else: no body, no redirect, no embedded
\* resource read, no host query.
C8_OnlyGet ==
  (lastRequest # None /\ lastRequest.method # "GET") =>
    lastOutput = [kind |-> "MethodNotAllowed", allow |-> "GET", body |-> None,
                  mime |-> "none", location |-> None, resources |-> {},
                  hostQueries |-> {}]

\* the configuration endpoint has answered a POST while the host would have
\* answered its plugin queries
C8_Witness ==
  /\ lastRequest # None
  /\ lastRequest.handler = "GetOE2Configuration"
  /\ lastRequest.method = "POST"
  /\ hostPlugins.ok
  /\ lastOutput.kind = "MethodNotAllowed"

\* C9: the routes are registered in the order assets, index.html, favicon,
\* app/(.*), app, api/configuration, each once; the root URI {root}app/ is set
\* after the six; the redirect at "/" comes last, and only when
\* "ReplaceDefaultExplorer" is true.
C9_RegistrationOrder ==
  /\ Len(routes) <= 7
  /\ RegisteredUris = SubSeq(ExpectedUris(oe2BaseUrl_), 1, Len(routes))
  /\ rootUri # None => (Len(routes) >= 6 /\ rootUri = <<oe2BaseUrl_, "app/">>)
  /\ Len(routes) = 7 =>
       (rootUri # None /\ MergedReplaceDefaultExplorer = JBool(TRUE)
        /\ routes[7].handler = "RedirectRoot")
  /\ (Returned /\ initResult = 0 /\ MergedEnable = JBool(TRUE)) =>
       /\ rootUri # None
       /\ Len(routes) = IF MergedReplaceDefaultExplorer = JBool(TRUE) THEN 7 ELSE 6
       /\ \A i \in 1..6 : routes[i].handler = Registrations[i].handler

\* an enabled initialization has succeeded with the redirect registered
C9_Witness ==
  /\ Returned /\ initResult = 0
  /\ MergedEnable = JBool(TRUE)
  /\ Len(routes) = 7
  /\ rootUri # None

\* C10: once initialization has returned, no step changes the effective
\* configuration or the base URL.
C10_ConfigurationImmutable ==
  [][Returned => (pluginJsonConfiguration_' = pluginJsonConfiguration_
                  /\ oe2BaseUrl_' = oe2BaseUrl_)]_vars

(***************************************************************************)
(* The configuration endpoint against the host's plugins and sections.     *)
(***************************************************************************)
\* the plugin names of the if-chain, the plugin of the default explorer that
\* the loop skips, and a plugin the chain does not name
PluginNames ==
  << "authorization", "connectivity-checks", "dicom-web", "explorer.js", "gdcm",
     "mysql-index", "mysql-storage", "odbc-index", "odbc-storage", "osimis-web-viewer",
     "postgresql-index", "postgresql-storage", "python", "serve-folders",
     "stone-webviewer", "tcia", "transfers", "unknown-plugin", "web-viewer",
     "worklists", "wsi" >>

\* plugins the host lists at once
MaxPlugins == 1

\* the lists of at most MaxPlugins plugins, in the order of PluginNames
PluginLists ==
  UNION {{[i \in 1..n |-> PluginNames[f[i]]] :
            f \in {g \in [1..n -> 1..Len(PluginNames)] :
                     \A i \in 1..n, j \in 1..n : i < j => g[i] < g[j]}} :
         n \in 0..MaxPlugins}

InfoModes == {"fail", "plain", "RootUri", "EmptyRootUri"}

\* the sections the if-chain consults, each with the keys it reads there
SectionKeys ==
  [Authorization |-> {"WebService"}, DicomWeb |-> {"Enable"}, Gdcm |-> {"Enable"},
   MySQL |-> {"EnableIndex", "EnableStorage"},
   PostgreSQL |-> {"EnableIndex", "EnableStorage"},
   Odbc |-> {"EnableIndex", "EnableStorage"},
   WebViewer |-> {}, PythonScript |-> {}, ServeFolders |-> {}, StoneWebViewer |-> {},
   Tcia |-> {"Enable"}, Worklists |-> {"Enable"}]

SectionNames == DOMAIN SectionKeys

SectionValues == {JBool(TRUE), JBool(FALSE), JStr(StrYes), JStr(StrEmpty)}

\* a section: empty, or with one of its keys
SectionContents(name) ==
  {EmptyObject} \cup
  {JObj([k \in {key} |-> v]) : key \in SectionKeys[name], v \in SectionValues}

\* the host's configuration: no section, or one section
PluginHostConfigurations ==
  {EmptyObject} \cup
  UNION {{JObj([k \in {name} |-> content]) : content \in SectionContents(name)} :
         name \in SectionNames}

Range(seq) == {seq[i] : i \in 1..Len(seq)}

\* the state a successful initialization with the default configuration leaves
InitializedWithDefaults ==
  /\ pc = "returned"
  /\ hostVersionOk = TRUE
  /\ defaultConfiguration = DefaultOE2
  /\ pluginJsonConfiguration_ = DefaultOE2
  /\ oe2BaseUrl_ = StrSlashUiSlash
  /\ routes = [i \in 1..Len(Registrations) |->
                 [uri |-> Plus(StrSlashUiSlash, Registrations[i].suffix),
                  handler |-> Registrations[i].handler,
                  resource |-> Registrations[i].resource]]
  /\ rootUri = Plus(StrSlashUiSlash, "app/")
  /\ initResult = 0
  /\ thrown = "none"

InitPlugins ==
  /\ InitializedWithDefaults
  /\ orthancFullConfiguration_ \in PluginHostConfigurations
  /\ \/ /\ hostPlugins = [ok |-> FALSE, list |-> <<>>]
        /\ hostPluginInfo = <<>>
     \/ /\ hostPlugins \in {[ok |-> TRUE, list |-> l] : l \in PluginLists}
        /\ hostPluginInfo \in [Range(hostPlugins.list) -> InfoModes]
     \/ /\ hostPlugins = [ok |-> TRUE, list |-> <<"explorer.js", "dicom-web", "odbc-index">>]
        /\ hostPluginInfo \in {[p \in Range(hostPlugins.list) |-> mode] : mode \in InfoModes}
  /\ RequestIdle
  /\ MergeIdle

NextPlugins == GetOE2Configuration

SpecPlugins == InitPlugins /\ [][NextPlugins]_vars

(***************************************************************************)
(* Properties of the configuration endpoint.                               *)
(***************************************************************************)
\* the configuration endpoint has answered a GET
AnsweredGet ==
  /\ lastRequest # None
  /\ lastRequest.handler = "GetOE2Configuration"
  /\ lastRequest.method = "GET"

\* the plugins the answer has to report
Reported == IF hostPlugins.ok THEN Range(hostPlugins.list) \ {"explorer.js"} ELSE {}

\* the record of plugin p in the answer (null when there is none)
AnsweredPlugin(p) == Member(Member(lastOutput.body, "Plugins"), p)

\* the plugins whose rule is "section S + key K", with S and K
KeyRules ==
  ("dicom-web" :> <<"DicomWeb", "Enable">>) @@
  ("gdcm" :> <<"Gdcm", "Enable">>) @@
  ("mysql-index" :> <<"MySQL", "EnableIndex">>) @@
  ("mysql-storage" :> <<"MySQL", "EnableStorage">>) @@
  ("odbc-index" :> <<"PostgreSQL", "EnableIndex">>) @@
  ("odbc-storage" :> <<"PostgreSQL", "EnableStorage">>) @@
  ("postgresql-index" :> <<"Odbc", "EnableIndex">>) @@
  ("postgresql-storage" :> <<"Odbc", "EnableStorage">>) @@
  ("tcia" :> <<"Tcia", "Enable">>) @@
  ("worklists" :> <<"Worklists", "Enable">>)

\* the plugins whose rule is "section S is present", with S
PresenceRules ==
  ("authorization" :> "Authorization") @@
  ("osimis-web-viewer" :> "WebViewer") @@
  ("python" :> "PythonScript") @@
  ("serve-folders" :> "ServeFolders") @@
  ("stone-webviewer" :> "StoneWebViewer")

\* the section the rule of plugin p names
RuleSection(p) == IF p \in DOMAIN KeyRules THEN KeyRules[p][1] ELSE PresenceRules[p]

SectionPresent(S) ==
  /\ S \in DOMAIN orthancFullConfiguration_.m
  /\ orthancFullConfiguration_.m[S].t = "obj"

\* section S exists and holds a truthy K
SectionKeyTruthy(S, K) ==
  /\ SectionPresent(S)
  /\ K \in DOMAIN orthancFullConfiguration_.m[S].m
  /\ LET v == orthancFullConfiguration_.m[S].m[K]
     IN  v = [t |-> "bool", b |-> TRUE] \/ (v.t = "str" /\ v.s # <<>>)

\* C6: in the answer, a plugin whose rule is "section S + key K" has "Enabled"
\* true iff section S exists and key K in it is truthy, and false otherwise.
C6_SectionKeyRule ==
  AnsweredGet =>
    \A p \in Reported \cap DOMAIN KeyRules :
      Member(AnsweredPlugin(p), "Enabled") =
        [t |-> "bool", b |-> SectionKeyTruthy(KeyRules[p][1], KeyRules[p][2])]

\* dicom-web is loaded, there is no DicomWeb section, and the answer reports
\* it as not enabled
C6_Witness ==
  /\ AnsweredGet
  /\ "dicom-web" \in Reported
  /\ ~SectionPresent("DicomWeb")
  /\ Member(AnsweredPlugin("dicom-web"), "Enabled") = JBool(FALSE)

\* a truthy key that is not a boolean has enabled its plugin
C6_WitnessNonBoolean ==
  /\ AnsweredGet
  /\ "mysql-index" \in Reported
  /\ SectionPresent("MySQL")
  /\ Member(orthancFullConfiguration_.m["MySQL"], "EnableIndex") = JStr(StrYes)
  /\ Member(AnsweredPlugin("mysql-index"), "Enabled") = JBool(TRUE)

\* the answer is a JSON document of "UiOptions" and "Plugins"
JsonAnswered ==
  /\ lastOutput.kind = "AnswerBuffer"
  /\ lastOutput.mime = "application/json"
  /\ lastOutput.body.t = "obj"
  /\ DOMAIN lastOutput.body.m = {"UiOptions", "Plugins"}

=============================================================================
